---- MODULE Spec2Model ----
\* Model of ig_posts_fecther.py: the resumable pagination loop
\* (iterate_and_save_posts), its two checkpoint files, and the file loaders.
\*
\* Spec     : runs of iterate_and_save_posts against a stable remote feed,
\*            starting from fresh (absent) files; a run can be killed at any
\*            statement boundary (OS-level interruption).
\* LoadSpec : the loaders and save_resume_state applied, as pure functions, to
\*            arbitrary file contents.
\* TermSpec : one run from fresh files on a feed of 1..3 pages, with weak
\*            fairness of the run's steps.
EXTENDS Integers, Sequences, FiniteSets, TLC

\* ---------------------------------------------------------------- bounds
MaxEdges == 2      \* edges per page are drawn from 0..MaxEdges
MaxPosts == 4      \* no page is fetched once the in-memory list exceeds MaxPosts - MaxEdges
MaxRuns  == 3      \* number of times iterate_and_save_posts is started
MaxLen   == 2      \* LoadSpec: longest stored list
MaxCount == 2      \* LoadSpec: largest stored post_count

\* ---------------------------------------------------------------- values
None == "<None>"                        \* Python None (a cursor that is not a string)
Cursors == {None, "", "c1", "c2"}       \* values an end_cursor / after_cursor can take
Keys == {None, "c1", "c2"}              \* what the request carries as "after" (None: no "after")

\* A post is the node of edge i of the page requested with key k.
Post(k, i) == <<k, i>>

\* File contents.  kind:
\*   "absent"  no such file              "empty"   zero bytes (just truncated by open(.., "w"))
\*   "garbage" text that is not JSON     "notutf8" bytes that are not UTF-8
\*   "list"    a JSON array (posts)      "state"   a JSON object {after_cursor, post_count}
\*   "object"  a JSON object without those keys      "scalar" a JSON number or string
\*   "latin1list"   bytes that are not UTF-8 and, read as latin-1, a JSON array
\*   "latin1object" bytes that are not UTF-8 and, read as latin-1, JSON that is no array
\*   ("notutf8" is JSON in neither encoding)
File(kind, posts, cursor, count) ==
    [kind |-> kind, posts |-> posts, cursor |-> cursor, count |-> count]
AbsentFile == File("absent", <<>>, None, 0)
EmptyFile == File("empty", <<>>, None, 0)
ListFile(posts) == File("list", posts, None, 0)
NotUtf8 == {"notutf8", "latin1list", "latin1object"}   \* open(.., encoding="utf-8") cannot decode these

\* ---------------------------------------------------------------- pure functions

\* lines 61-63: the cursor is sent only when it is truthy
RequestKey(after_cursor) == IF after_cursor \in {None, ""} THEN None ELSE after_cursor

Returned(kind, posts, cursor, count) ==
    [raised |-> "", kind |-> kind, posts |-> posts, cursor |-> cursor, count |-> count]
Raised(exc) ==
    [raised |-> exc, kind |-> "none", posts |-> <<>>, cursor |-> None, count |-> 0]

\* lines 159-165
load_existing_posts(f) ==
    IF f.kind = "absent" THEN Returned("list", <<>>, None, 0)
    ELSE IF f.kind \in NotUtf8 THEN Raised("UnicodeDecodeError")
    ELSE IF f.kind \in {"empty", "garbage"} THEN Returned("list", <<>>, None, 0)
    ELSE IF f.kind = "list" THEN Returned("list", f.posts, None, 0)
    ELSE Returned(f.kind, <<>>, f.cursor, f.count)

load_resume_state_zero(f) ==
    IF f.kind = "absent" THEN Returned("pair", <<>>, None, 0)
    ELSE IF f.kind \in NotUtf8 THEN Raised("UnicodeDecodeError")
    ELSE IF f.kind \in {"empty", "garbage"} THEN Raised("JSONDecodeError")
    ELSE IF f.kind = "state" THEN Returned("pair", <<>>, f.cursor, 0)
    ELSE IF f.kind = "object" THEN Returned("pair", <<>>, None, 0)
    ELSE Raised("AttributeError")

\* lines 107-111
load_resume_state(f) ==
    IF f.kind = "absent" THEN Returned("pair", <<>>, None, 0)
    ELSE IF f.kind \in NotUtf8 THEN Raised("UnicodeDecodeError")
    ELSE IF f.kind \in {"empty", "garbage"} THEN Raised("JSONDecodeError")
    ELSE IF f.kind = "state" THEN Returned("pair", <<>>, f.cursor, f.count)
    ELSE IF f.kind = "object" THEN Returned("pair", <<>>, None, 0)
    ELSE Raised("AttributeError")

save_resume_state_str(after_cursor, post_count) ==
    File("state", <<>>, IF after_cursor = None THEN "" ELSE after_cursor, post_count)

\* lines 131-136 (the content json.dump leaves in the file: None is written as
\* null, a string as a JSON string, the count as a JSON number)
save_resume_state(after_cursor, post_count) == File("state", <<>>, after_cursor, post_count)

load_json_file_nofallback(f) ==
    IF f.kind = "absent" THEN Returned("None", <<>>, None, 0)
    ELSE IF f.kind \in {"empty", "garbage"} THEN Returned("None", <<>>, None, 0)
    ELSE IF f.kind \in NotUtf8 THEN Raised("UnicodeDecodeError")
    ELSE IF f.kind = "list" THEN Returned("list", f.posts, None, 0)
    ELSE Returned("None", <<>>, None, 0)

\* lines 282-313
load_json_file(f) ==
    IF f.kind = "absent" THEN Returned("None", <<>>, None, 0)                 \* 291-292
    ELSE IF f.kind \in {"empty", "garbage"} THEN Returned("None", <<>>, None, 0)  \* 293-294
    ELSE IF f.kind = "notutf8" THEN Returned("None", <<>>, None, 0)           \* 295-299, 310-311
    ELSE IF f.kind = "latin1list" THEN Returned("list", f.posts, None, 0)      \* 295-303
    ELSE IF f.kind = "latin1object" THEN Returned("None", <<>>, None, 0)      \* 295-306
    ELSE IF f.kind = "list" THEN Returned("list", f.posts, None, 0)            \* 283-287
    ELSE Returned("None", <<>>, None, 0)                                      \* 288-290

\* lines 225-227
PagePosts(r) == [i \in 1..r.edges |-> Post(r.key, i)]

NoEdges_never(r) == FALSE

\* line 230
NoEdges(r) == r.edges = 0

AppendEdges_first(posts, r) == posts \o SubSeq(PagePosts(r), 1, 1)

\* lines 235-237
AppendEdges(posts, r) == posts \o PagePosts(r)

\* line 238, once per edge
CountEdges(count, r) == count + r.edges

HasNext_always(r) == TRUE

\* line 251
HasNext(r) == r.has_next_page

\* ---------------------------------------------------------------- state
VARIABLES
    outFile,            \* output_file on disk
    stateFile,          \* resume_file on disk
    pc,                 \* where iterate_and_save_posts is
    all_posts,          \* local all_posts
    after_cursor,       \* local after_cursor
    downloaded_count,   \* local downloaded_count
    response,           \* local response (the last one received in this run)
    served,             \* the remote feed: the page it serves for each request key
    runs,               \* how many times iterate_and_save_posts was started
    prevOut,            \* output_file as it was when the last fetch was issued
    prevState,          \* resume_file as it was when the last fetch was issued
    lastCount,          \* the post_count last stored in resume_file (0 if none)
    everPosts,          \* the list last stored in output_file (empty if none)
    onlyInterrupted,    \* every earlier run ended by a failed fetch, an exception or a kill
    fetches,            \* fetches issued by the current run (calls at line 216)
    inFile,             \* LoadSpec: the file a loader is applied to
    called,             \* LoadSpec: the function that was applied last
    result,             \* LoadSpec: what it returned or raised
    savedFile           \* LoadSpec: the file save_resume_state wrote

loopVars == <<outFile, stateFile, pc, all_posts, after_cursor, downloaded_count,
              response, served, runs, prevOut, prevState, lastCount, everPosts,
              onlyInterrupted, fetches>>
loadVars == <<inFile, called, result, savedFile>>
vars == <<outFile, stateFile, pc, all_posts, after_cursor, downloaded_count,
          response, served, runs, prevOut, prevState, lastCount, everPosts,
          onlyInterrupted, fetches, inFile, called, result, savedFile>>

Running == {"fetch", "open_out", "dump_posts", "page_info", "open_state", "dump_state"}
Stopped == {"FAILED", "RAISED", "DONE", "CRASHED"}

Resp(kind, key, edges, has_next_page, end_cursor) ==
    [kind |-> kind, key |-> key, edges |-> edges,
     has_next_page |-> has_next_page, end_cursor |-> end_cursor]
NoResponse == Resp("none", None, 0, FALSE, None)
NotServed == Resp("unserved", None, 0, FALSE, None)

\* every page the remote can serve for request key k
Pages(k) == {Resp("page", k, n, h, c) : n \in 0..MaxEdges, h \in BOOLEAN, c \in Cursors}

LoopInit ==
    /\ outFile = AbsentFile
    /\ stateFile = AbsentFile
    /\ pc = "idle"
    /\ all_posts = <<>>
    /\ after_cursor = None
    /\ downloaded_count = 0
    /\ response = NoResponse
    /\ served = [k \in Keys |-> NotServed]
    /\ runs = 0
    /\ prevOut = AbsentFile
    /\ prevState = AbsentFile
    /\ lastCount = 0
    /\ everPosts = <<>>
    /\ onlyInterrupted = TRUE
    /\ fetches = 0

LoadIdle ==
    /\ inFile = AbsentFile
    /\ called = "none"
    /\ result = Returned("none", <<>>, None, 0)
    /\ savedFile = AbsentFile

Init == LoopInit /\ LoadIdle

\* ---------------------------------------------------------------- iterate_and_save_posts

\* lines 206-210: load both files; an exception of either loader ends the run.
\* output_file is written only by lines 241-242, so it holds a list whenever it parses.
Start ==
    /\ pc \in Stopped \cup {"idle"}
    /\ runs < MaxRuns
    /\ LET p == load_existing_posts(outFile)
           s == load_resume_state(stateFile)
       IN  IF p.raised # "" \/ s.raised # ""
           THEN /\ pc' = "RAISED"
                /\ UNCHANGED <<all_posts, after_cursor, downloaded_count>>
           ELSE /\ pc' = "fetch"
                /\ all_posts' = p.posts
                /\ after_cursor' = s.cursor
                /\ downloaded_count' = s.count
    /\ response' = NoResponse
    /\ runs' = runs + 1
    /\ onlyInterrupted' = (onlyInterrupted /\ pc # "DONE")
    /\ UNCHANGED <<outFile, stateFile, served, prevOut, prevState, lastCount, everPosts>>
    /\ fetches' = 0
    /\ UNCHANGED loadVars

FetchNon200_retry ==
    /\ pc = "fetch"
    /\ response' = Resp("non200", RequestKey(after_cursor), 0, FALSE, None)
    /\ pc' = "fetch"
    /\ prevOut' = outFile
    /\ prevState' = stateFile
    /\ UNCHANGED <<outFile, stateFile, all_posts, after_cursor, downloaded_count,
                   served, runs, lastCount, everPosts, onlyInterrupted>>
    /\ fetches' = fetches + 1
    /\ UNCHANGED loadVars

\* lines 216, 81-85, 220-222: a non-200 status comes back as None; the loop breaks
FetchNon200 ==
    /\ pc = "fetch"
    /\ response' = Resp("non200", RequestKey(after_cursor), 0, FALSE, None)
    /\ pc' = "FAILED"
    /\ prevOut' = outFile
    /\ prevState' = stateFile
    /\ UNCHANGED <<outFile, stateFile, all_posts, after_cursor, downloaded_count,
                   served, runs, lastCount, everPosts, onlyInterrupted>>
    /\ fetches' = fetches + 1
    /\ UNCHANGED loadVars

\* lines 216, 78: requests.get raises; nothing catches it, the run ends
FetchException ==
    /\ pc = "fetch"
    /\ response' = Resp("exception", RequestKey(after_cursor), 0, FALSE, None)
    /\ pc' = "RAISED"
    /\ prevOut' = outFile
    /\ prevState' = stateFile
    /\ UNCHANGED <<outFile, stateFile, all_posts, after_cursor, downloaded_count,
                   served, runs, lastCount, everPosts, onlyInterrupted>>
    /\ fetches' = fetches + 1
    /\ UNCHANGED loadVars

\* The remote answers the request for key k: the page it served before for k,
\* or, the first time, any page (the feed is stable).
Serve(k, page) ==
    /\ page \in Pages(k)
    /\ served[k] \in {NotServed, page}
    /\ served' = [served EXCEPT ![k] = page]

\* lines 216, 225-232: a page without edges ends the run
FetchEmptyPage ==
    /\ pc = "fetch"
    /\ \E page \in Pages(RequestKey(after_cursor)) :
          /\ Serve(RequestKey(after_cursor), page)
          /\ NoEdges(page)
          /\ response' = page
    /\ pc' = "DONE"
    /\ prevOut' = outFile
    /\ prevState' = stateFile
    /\ UNCHANGED <<outFile, stateFile, all_posts, after_cursor, downloaded_count,
                   runs, lastCount, everPosts, onlyInterrupted>>
    /\ fetches' = fetches + 1
    /\ UNCHANGED loadVars

\* lines 216, 225-238: a page with edges is appended to all_posts and counted
FetchPage ==
    /\ pc = "fetch"
    /\ Len(all_posts) + MaxEdges <= MaxPosts
    /\ \E page \in Pages(RequestKey(after_cursor)) :
          /\ Serve(RequestKey(after_cursor), page)
          /\ ~NoEdges(page)
          /\ response' = page
          /\ all_posts' = AppendEdges(all_posts, page)
          /\ downloaded_count' = CountEdges(downloaded_count, page)
    /\ pc' = "open_out"
    /\ prevOut' = outFile
    /\ prevState' = stateFile
    /\ UNCHANGED <<outFile, stateFile, after_cursor, runs, lastCount, everPosts,
                   onlyInterrupted>>
    /\ fetches' = fetches + 1
    /\ UNCHANGED loadVars

\* line 241: open(output_file, "w") truncates the file
OpenOutput ==
    /\ pc = "open_out"
    /\ outFile' = EmptyFile
    /\ pc' = "dump_posts"
    /\ UNCHANGED <<stateFile, all_posts, after_cursor, downloaded_count, response,
                   served, runs, prevOut, prevState, lastCount, everPosts,
                   onlyInterrupted>>
    /\ UNCHANGED fetches
    /\ UNCHANGED loadVars

\* line 242 and the close of the with block: the whole list is in the file
DumpPosts ==
    /\ pc = "dump_posts"
    /\ outFile' = ListFile(all_posts)
    /\ everPosts' = all_posts
    /\ pc' = "page_info"
    /\ UNCHANGED <<stateFile, all_posts, after_cursor, downloaded_count, response,
                   served, runs, prevOut, prevState, lastCount, onlyInterrupted>>
    /\ UNCHANGED fetches
    /\ UNCHANGED loadVars

HasNextPage_keep ==
    /\ pc = "page_info"
    /\ HasNext(response)
    /\ after_cursor' = after_cursor
    /\ pc' = "open_state"
    /\ UNCHANGED <<outFile, stateFile, all_posts, downloaded_count, response, served,
                   runs, prevOut, prevState, lastCount, everPosts, onlyInterrupted>>
    /\ UNCHANGED fetches
    /\ UNCHANGED loadVars

\* lines 246-252: there is a next page, take its cursor
HasNextPage ==
    /\ pc = "page_info"
    /\ HasNext(response)
    /\ after_cursor' = response.end_cursor
    /\ pc' = "open_state"
    /\ UNCHANGED <<outFile, stateFile, all_posts, downloaded_count, response, served,
                   runs, prevOut, prevState, lastCount, everPosts, onlyInterrupted>>
    /\ UNCHANGED fetches
    /\ UNCHANGED loadVars

\* lines 246-251, 254-256: no next page, the loop ends without saving the state
LastPage ==
    /\ pc = "page_info"
    /\ ~HasNext(response)
    /\ pc' = "DONE"
    /\ UNCHANGED <<outFile, stateFile, all_posts, after_cursor, downloaded_count,
                   response, served, runs, prevOut, prevState, lastCount, everPosts,
                   onlyInterrupted>>
    /\ UNCHANGED fetches
    /\ UNCHANGED loadVars

\* lines 253, 135: open(resume_file, "w") truncates the file
OpenState ==
    /\ pc = "open_state"
    /\ stateFile' = EmptyFile
    /\ pc' = "dump_state"
    /\ UNCHANGED <<outFile, all_posts, after_cursor, downloaded_count, response,
                   served, runs, prevOut, prevState, lastCount, everPosts,
                   onlyInterrupted>>
    /\ UNCHANGED fetches
    /\ UNCHANGED loadVars

DumpState_skip ==
    /\ pc = "dump_state"
    /\ stateFile' = prevState
    /\ pc' = "fetch"
    /\ UNCHANGED <<outFile, all_posts, after_cursor, downloaded_count, response,
                   served, runs, prevOut, prevState, lastCount, everPosts,
                   onlyInterrupted>>
    /\ UNCHANGED fetches
    /\ UNCHANGED loadVars

\* lines 253, 136: the state is in the file; back to the top of the loop
DumpState ==
    /\ pc = "dump_state"
    /\ stateFile' = save_resume_state(after_cursor, downloaded_count)
    /\ lastCount' = downloaded_count
    /\ pc' = "fetch"
    /\ UNCHANGED <<outFile, all_posts, after_cursor, downloaded_count, response,
                   served, runs, prevOut, prevState, everPosts, onlyInterrupted>>
    /\ UNCHANGED fetches
    /\ UNCHANGED loadVars

\* OS-level interruption of a run: the process is gone, the files stay as they are
Crash ==
    /\ pc \in Running
    /\ pc' = "CRASHED"
    /\ UNCHANGED <<outFile, stateFile, all_posts, after_cursor, downloaded_count,
                   response, served, runs, prevOut, prevState, lastCount, everPosts,
                   onlyInterrupted>>
    /\ UNCHANGED fetches
    /\ UNCHANGED loadVars

Next ==
    \/ Start
    \/ FetchNon200
    \/ FetchException
    \/ FetchEmptyPage
    \/ FetchPage
    \/ OpenOutput
    \/ DumpPosts
    \/ HasNextPage
    \/ LastPage
    \/ OpenState
    \/ DumpState
    \/ Crash

Spec == Init /\ [][Next]_vars

\* ---------------------------------------------------------------- the loaders on any file

LoadPosts == {Post(k, i) : k \in {None, "c1"}, i \in 1..MaxEdges}
LoadLists == UNION {[1..n -> LoadPosts] : n \in 0..MaxLen}

\* every file content a loader can be handed (an array whose bytes are not
\* UTF-8 has at least one element: the bytes sit in a string of it)
LoadInputs ==
    {AbsentFile, EmptyFile,
     File("garbage", <<>>, None, 0), File("notutf8", <<>>, None, 0),
     File("object", <<>>, None, 0), File("scalar", <<>>, None, 0),
     File("latin1object", <<>>, None, 0)}
    \cup {ListFile(l) : l \in LoadLists}
    \cup {File("latin1list", l, None, 0) : l \in LoadLists \ {<<>>}}
    \cup {File("state", <<>>, c, n) : c \in Cursors, n \in 0..MaxCount}

LoadInit ==
    /\ LoopInit
    /\ inFile \in LoadInputs
    /\ called = "none"
    /\ result = Returned("none", <<>>, None, 0)
    /\ savedFile = AbsentFile

\* load_existing_posts(output_file) on the file
CallLoadExistingPosts ==
    /\ called = "none"
    /\ called' = "load_existing_posts"
    /\ result' = load_existing_posts(inFile)
    /\ UNCHANGED <<inFile, savedFile>>
    /\ UNCHANGED loopVars

\* load_resume_state(resume_file) on the file
CallLoadResumeState ==
    /\ called = "none"
    /\ called' = "load_resume_state"
    /\ result' = load_resume_state(inFile)
    /\ UNCHANGED <<inFile, savedFile>>
    /\ UNCHANGED loopVars

\* load_json_file(file_path) on the file
CallLoadJsonFile ==
    /\ called = "none"
    /\ called' = "load_json_file"
    /\ result' = load_json_file(inFile)
    /\ UNCHANGED <<inFile, savedFile>>
    /\ UNCHANGED loopVars

\* save_resume_state with the pair load_resume_state returned, unchanged
SaveLoadedState ==
    /\ called = "load_resume_state"
    /\ result.raised = ""
    /\ called' = "save_resume_state"
    /\ savedFile' = save_resume_state(result.cursor, result.count)
    /\ UNCHANGED <<inFile, result>>
    /\ UNCHANGED loopVars

LoadNext ==
    \/ CallLoadExistingPosts
    \/ CallLoadResumeState
    \/ CallLoadJsonFile
    \/ SaveLoadedState

LoadSpec == LoadInit /\ [][LoadNext]_vars

\* ---------------------------------------------------------------- helpers of the properties

\* the collection a file holds, as load_existing_posts reads it
StoredPosts(f) == IF f.kind = "list" THEN f.posts ELSE <<>>

IsPrefix(s, t) == Len(s) <= Len(t) /\ SubSeq(t, 1, Len(s)) = s

NoDuplicates(s) == \A i, j \in 1..Len(s) : s[i] = s[j] => i = j

\* What one uninterrupted run from fresh files persists on the feed served so
\* far (lines 212-256 with no failure): status "done" with the posts, "unserved"
\* when it reaches a page not served yet, "cycle" when the cursors loop.
RECURSIVE Walk(_, _)
Walk(k, fuel) ==
    IF fuel = 0 THEN [status |-> "cycle", posts |-> <<>>]
    ELSE IF served[k] = NotServed THEN [status |-> "unserved", posts |-> <<>>]
    ELSE IF served[k].edges = 0 THEN [status |-> "done", posts |-> <<>>]
    ELSE IF ~served[k].has_next_page
         THEN [status |-> "done", posts |-> PagePosts(served[k])]
    ELSE LET rest == Walk(RequestKey(served[k].end_cursor), fuel - 1)
         IN  [status |-> rest.status, posts |-> PagePosts(served[k]) \o rest.posts]

Uninterrupted == Walk(None, Cardinality(Keys))

\* ---------------------------------------------------------------- one run on a feed of P pages

\* the request keys in the order the cursors of a well-formed feed visit them
KeySeq == <<None, "c1", "c2">>

RECURSIVE SumTo(_, _)
SumTo(e, j) == IF j = 0 THEN 0 ELSE e[j] + SumTo(e, j - 1)

\* A remote source that reports P pages: page i carries e[i] edges, every page
\* but the last has has_next_page true and the cursor of the next page.
Feed(P, e) ==
    [k \in Keys |->
        LET i == CHOOSE j \in 1..Len(KeySeq) : KeySeq[j] = k
        IN  IF i > P THEN NotServed
            ELSE Resp("page", k, e[i], i < P, IF i < P THEN KeySeq[i + 1] ELSE None)]

\* the feeds of 1..3 pages whose posts fit the bound of the in-memory list
TermFeeds ==
    UNION {{Feed(P, e) : e \in {x \in [1..P -> 0..MaxEdges] :
                                  \A j \in 0..(P - 1) : SumTo(x, j) + MaxEdges <= MaxPosts}}
           : P \in 1..Len(KeySeq)}

\* fresh files, the feed fixed from the start
TermInit ==
    /\ outFile = AbsentFile
    /\ stateFile = AbsentFile
    /\ pc = "idle"
    /\ all_posts = <<>>
    /\ after_cursor = None
    /\ downloaded_count = 0
    /\ response = NoResponse
    /\ served \in TermFeeds
    /\ runs = 0
    /\ prevOut = AbsentFile
    /\ prevState = AbsentFile
    /\ lastCount = 0
    /\ everPosts = <<>>
    /\ onlyInterrupted = TRUE
    /\ fetches = 0
    /\ LoadIdle

\* the one call of iterate_and_save_posts
TermStart == runs = 0 /\ Start

TermNext ==
    \/ TermStart
    \/ FetchNon200
    \/ FetchException
    \/ FetchEmptyPage
    \/ FetchPage
    \/ OpenOutput
    \/ DumpPosts
    \/ HasNextPage
    \/ LastPage
    \/ OpenState
    \/ DumpState

\* The process is single-threaded and synchronous: it executes its next
\* statement as long as it has one.
TermSpec == TermInit /\ [][TermNext]_vars /\ WF_vars(TermNext)

\* the number of pages the remote reports from key k on, following the cursors
RECURSIVE ChainLength(_, _)
ChainLength(k, fuel) ==
    IF fuel = 0 \/ served[k] = NotServed THEN 0
    ELSE IF ~served[k].has_next_page THEN 1
    ELSE 1 + ChainLength(RequestKey(served[k].end_cursor), fuel - 1)

PagesReported == ChainLength(None, Cardinality(Keys))

\* ---------------------------------------------------------------- properties

\* C1: on a stable feed whose cursors lead to a last page, when runs that were
\* stopped (failed fetch, exception or kill) are followed by a run that ends by
\* itself, the persisted collection is the one an uninterrupted run from fresh
\* files persists.
C1_IdempotentResume ==
    (pc = "DONE" /\ onlyInterrupted /\ Uninterrupted.status = "done")
        => StoredPosts(outFile) = Uninterrupted.posts

\* C2: across runs separated by fetch failures or crashes, on a stable feed
\* whose cursors do not loop, no page is appended twice: a post appears at most
\* once in the persisted collection.
C2_NoRefetch ==
    (onlyInterrupted /\ Uninterrupted.status # "cycle")
        => NoDuplicates(StoredPosts(outFile))

\* C3: after a page with at least one edge and has_next_page false, the state
\* file is never written, no other fetch is issued, and the run ends with the
\* collection file holding the collection it had at the fetch extended by
\* exactly that page's posts.
C3_LastPagePersisted ==
    (response.kind = "page" /\ response.edges >= 1 /\ ~response.has_next_page)
        => /\ stateFile = prevState
           /\ pc \in {"open_out", "dump_posts", "page_info", "DONE", "CRASHED"}
           /\ pc = "DONE" =>
                /\ outFile = ListFile(StoredPosts(prevOut) \o PagePosts(response))
                /\ Len(outFile.posts) = Len(StoredPosts(prevOut)) + response.edges

C3_Witness ==
    /\ pc = "DONE"
    /\ response.kind = "page" /\ response.edges = 2 /\ ~response.has_next_page
    /\ stateFile.kind = "state" /\ stateFile.cursor = "c1"
    /\ Len(StoredPosts(prevOut)) >= 1
    /\ Len(outFile.posts) = Len(StoredPosts(prevOut)) + 2

\* C4: after a page with zero edges, whatever its has_next_page and end_cursor,
\* the run has ended and neither file was written since the fetch.
C4_EmptyPageStops ==
    (response.kind = "page" /\ response.edges = 0)
        => /\ pc = "DONE"
           /\ outFile = prevOut
           /\ stateFile = prevState

C4_Witness ==
    /\ pc = "DONE"
    /\ response.kind = "page" /\ response.edges = 0
    /\ response.has_next_page /\ response.end_cursor = "c2"
    /\ stateFile.kind = "state" /\ outFile.kind = "list"

\* C5: after a failed fetch (non-200 status or exception) the run has stopped
\* without a retry and both files are what they were before the fetch.
C5_FailureStops ==
    (response.kind \in {"non200", "exception"})
        => /\ pc \in {"FAILED", "RAISED"}
           /\ response.kind = "non200" => pc = "FAILED"
           /\ outFile = prevOut
           /\ stateFile = prevState

C5_Witness ==
    /\ pc = "FAILED" /\ response.kind = "non200"
    /\ stateFile.kind = "state" /\ stateFile.count >= 1
    /\ outFile.kind = "list" /\ Len(outFile.posts) >= 1

\* C6: load_resume_state on a state file that exists but does not parse as
\* JSON returns (None, 0) and does not raise.
C6_MalformedStateIsFresh ==
    (called = "load_resume_state" /\ inFile.kind \in {"empty", "garbage"})
        => /\ result.raised = ""
           /\ result.cursor = None
           /\ result.count = 0

\* C7: load_existing_posts never raises; it returns an empty sequence for a
\* file that is absent, empty or not parseable, and the stored sequence for a
\* file that holds one.
C7_LoadPostsNeverRaises ==
    (called = "load_existing_posts")
        => /\ result.raised = ""
           /\ inFile.kind \in {"absent", "empty", "garbage", "notutf8"}
                => (result.kind = "list" /\ result.posts = <<>>)
           /\ inFile.kind = "list"
                => (result.kind = "list" /\ result.posts = inFile.posts)

\* C8: once a page with has_next_page true has been processed and the run goes
\* on, the in-memory cursor is not None; the cursor stored in the state file
\* (written only after such a page) is not None.
C8_CursorNotNone ==
    /\ (pc \in {"open_state", "dump_state", "fetch"}
            /\ response.kind = "page" /\ response.has_next_page)
        => after_cursor # None
    /\ stateFile.kind = "state" => stateFile.cursor # None

\* C9: every post_count written to the state file is at least the one stored
\* there before, and the in-memory count never decreases within a run.
C9_CountOnlyIncreases ==
    [][/\ stateFile'.kind = "state" => stateFile'.count >= lastCount
       /\ runs' = runs => downloaded_count' >= downloaded_count]_vars

C9_Witness ==
    /\ runs >= 2 /\ pc = "fetch" /\ response.kind = "page"
    /\ stateFile.kind = "state" /\ stateFile.count = downloaded_count
    /\ stateFile.count >= 3

\* C10: between runs, the collection file holds the list last stored in it,
\* possibly extended: nothing stored earlier is removed, reordered or replaced.
C10_AppendOnly ==
    (pc \notin Running) => IsPrefix(everPosts, StoredPosts(outFile))

\* C11: on a remote source that reports P pages, a run from fresh files never
\* issues more than P fetches, and once it is fetching it eventually stops.
C11_Termination ==
    /\ [](fetches <= PagesReported)
    /\ [](pc = "fetch" => <>(pc \in Stopped))

C11_Witness ==
    /\ pc = "DONE"
    /\ fetches >= 2
    /\ fetches = PagesReported
    /\ response.kind = "page" /\ ~response.has_next_page /\ response.edges >= 1

C13_LoadJsonNoData ==
    (called = "load_json_file")
        => /\ result.raised = ""
           /\ inFile.kind \in ({"absent", "empty", "garbage", "state", "object", "scalar"}
                               \cup NotUtf8)
                => result.kind = "None"
           /\ result.kind = "list" => result.posts = inFile.posts

\* C13 amended: load_json_file never raises; it returns the list when the file
\* parses to a list as UTF-8 or, when it is not UTF-8 decodable, as latin-1,
\* and no data in every other case.
C13_LoadJsonNeverFatal ==
    (called = "load_json_file")
        => /\ result.raised = ""
           /\ inFile.kind \in {"list", "latin1list"}
                => (result.kind = "list" /\ result.posts = inFile.posts)
           /\ inFile.kind \notin {"list", "latin1list"} => result.kind = "None"

C13_Witness ==
    /\ called = "load_json_file"
    /\ inFile.kind = "latin1list" /\ Len(inFile.posts) >= 1
    /\ result.raised = "" /\ result.kind = "list" /\ result.posts = inFile.posts

\* C14: whenever the loop has just saved the state, the stored post_count is
\* the length of the persisted collection; and within a run the in-memory
\* collection and the count grow by the same number of posts.
C14_CountIsLength ==
    /\ []((pc = "fetch" /\ response.kind = "page")
              => (stateFile.kind = "state"
                    /\ stateFile.count = Len(StoredPosts(outFile))))
    /\ [][runs' = runs =>
            Len(all_posts') - Len(all_posts) = downloaded_count' - downloaded_count]_vars

\* C15: the fetch that follows a page with has_next_page true is issued with
\* that page's end_cursor, and the state file already holds that cursor; the
\* first fetch of a run is issued with the cursor of the state file (no cursor
\* when there is no file).
C15_CursorHandOver ==
    /\ (pc = "fetch" /\ response.kind = "page")
        => /\ response.has_next_page
           /\ after_cursor = response.end_cursor
           /\ stateFile.kind = "state"
           /\ stateFile.cursor = response.end_cursor
    /\ (pc = "fetch" /\ response.kind = "none")
        => /\ stateFile.kind \in {"absent", "state"}
           /\ after_cursor = (IF stateFile.kind = "absent" THEN None ELSE stateFile.cursor)

C15_Witness ==
    /\ pc = "fetch" /\ runs >= 2 /\ fetches >= 1
    /\ response.kind = "page" /\ response.key = "c1" /\ response.end_cursor = "c2"
    /\ after_cursor = "c2" /\ stateFile.cursor = "c2"

\* C16: whenever a run can be started, the persisted collection holds at
\* least as many posts as the persisted post_count.
C16_NoPostLost ==
    (pc \notin Running /\ stateFile.kind = "state")
        => Len(StoredPosts(outFile)) >= stateFile.count

\* C17: whenever a fetch is about to be issued, the in-memory pair
\* (after_cursor, downloaded_count) is the pair stored in the state file, or
\* (None, 0) when there is no state file.
C17_MemoryEqualsCheckpoint ==
    (pc = "fetch")
        => IF stateFile.kind = "absent"
           THEN after_cursor = None /\ downloaded_count = 0
           ELSE /\ stateFile.kind = "state"
                /\ after_cursor = stateFile.cursor
                /\ downloaded_count = stateFile.count

C17_Witness ==
    /\ pc = "fetch" /\ fetches >= 1
    /\ stateFile.kind = "state" /\ stateFile.cursor = "c1"
    /\ downloaded_count = 2 /\ stateFile.count = 2

====
